---- MODULE Spec2Model ----
(***************************************************************************)
(* Serrano REST layer: file export (resources/exporter.py), field          *)
(* distribution (resources/field/dist.py), data preview, the context       *)
(* resources (resources/context.py) and the context and query forms        *)
(* (forms.py).                                                             *)
(*                                                                         *)
(* A request is a message in flight: Receive* puts one request into        *)
(* `request`, the Handle* action runs the whole handler on it and leaves   *)
(* the response in `response` and the calls made to external collaborators *)
(* (exporter.write, usage.log, order_by, kmeans...) in `effects`, in call  *)
(* order.  The handlers themselves hold no state between requests.         *)
(***************************************************************************)
EXTENDS Integers, Sequences, FiniteSets, TLC

VARIABLES
    pc,         \* "idle" | "received" | "responded"
    request,    \* the request being served (kept until the next one arrives)
    response,   \* the handler's return value / raised error
    effects,    \* calls made to external collaborators, in call order
    db          \* the data store the distribution is computed over

vars == <<pc, request, response, effects, db>>

(***************************************************************************)
(* Python values.                                                          *)
(***************************************************************************)
\* Python's None and a present value, kept apart from every model value.
None == <<>>
Some(v) == <<v>>
Val(o) == o[1]

NoRequest == [kind |-> "none"]
NoResponse == [status |-> 0]

\* int(s) of a string of decimal digits (the URL groups match \d+).
RECURSIVE int(_)
int(s) ==
    IF Len(s) = 0 THEN 0
    ELSE 10 * int(SubSeq(s, 1, Len(s) - 1)) + s[Len(s)]

\* '{0}'.format(n) of a non-negative int: its decimal digits, no padding.
RECURSIVE format(_)
format(n) ==
    IF n < 10 THEN <<n>> ELSE format(n \div 10) \o <<n % 10>>

\* Truth value of an optional URL keyword argument (None and '' are falsy).
Truthy(o) == o # None /\ Len(Val(o)) > 0

(***************************************************************************)
(* Bounds of the export requests.                                          *)
(***************************************************************************)
MaxPage == 11
MaxLimit == 3

\* IntParam(50) of ExporterParametizer.
DEFAULT_LIMIT == 50

\* Registered exporters (avocado.export.registry) and one name that is not.
EXPORT_TYPES == {"csv", "json"}
RequestedTypes == EXPORT_TYPES \cup {"bogus"}

\* What (?P<page>\d+) can capture: plain and zero-padded numerals.
PageStrings ==
    {format(n) : n \in 0..MaxPage} \cup {<<0>> \o format(n) : n \in 0..MaxPage}

\* The limit query parameter: absent, or an integer.
LimitParams == {None} \cup {Some(l) : l \in 0..MaxLimit}

\* The three URL patterns of the exporter resource.
ExportKwargs ==
    {[page |-> None, stop_page |-> None]}
    \cup {[page |-> Some(p), stop_page |-> None] : p \in PageStrings}
    \cup {[page |-> Some(p), stop_page |-> Some(s)] :
             p \in PageStrings, s \in PageStrings}

ExportRequests ==
    {[kind |-> "export", export_type |-> t, kwargs |-> k, limit |-> l] :
        t \in RequestedTypes, k \in ExportKwargs, l \in LimitParams}

(***************************************************************************)
(* ExporterResource                                                        *)
(***************************************************************************)
\* params.get('limit') under ExporterParametizer.
ExportLimitParam(req) ==
    IF req.limit = None THEN DEFAULT_LIMIT ELSE Val(req.limit)

\* Pages are 1-based.
PageBelowFirst(page) == page < 1

PageOffsetOneBased(limit, page) == limit * page

\* Change to 0-base for calculating offset.
PageOffset(limit, page) == limit * (page - 1)

StopBelowPageOffByOne(stop_page, page) == stop_page + 1 < page

\* Cannot have a lower index than page.
StopBelowPage(stop_page, page) == stop_page < page

IsRangeInclusive(stop_page, page) == stop_page >= page

\* 4...4 is equivalent to just 4.
IsRange(stop_page, page) == stop_page > page

\* limit = limit * stop_page
RangeLimit(limit, page, stop_page) == limit * stop_page

UnpagedLimitKept(limit) == Some(limit)

\* When no page or range is specified, the limit does not apply.
UnpagedLimit(limit) == None

PartialPastFirst(page) == page # None /\ Val(page) > 1

\* 'partial': page is not None
Partial(page) == page # None

PageTag(page) == <<"p">> \o format(page)
RangeTag(page, stop_page) == <<"p">> \o format(page) \o <<"-">> \o format(stop_page)
AllTag == <<"all">>

Http404 == [status |-> 404]

WriteCall(offset, limit) ==
    [op |-> "exporter.write", offset |-> offset, limit |-> limit]

ExportLogCall(export_type, page) ==
    [op |-> "usage.log", event |-> "export",
     data |-> [type |-> export_type, partial |-> Partial(page)]]

\* The tail of _export: write, headers, usage.log, return.
ExportWrite(req, page, offset, limit, file_tag) ==
    [response |-> [status |-> 200, file_tag |-> file_tag],
     effects |-> << WriteCall(offset, limit),
                    ExportLogCall(req.export_type, page) >>]

ExportRaise404 == [response |-> Http404, effects |-> <<>>]

\* ExporterResource._export: the result and the calls made on the way.
Export(req) ==
    LET limit == ExportLimitParam(req)
        kpage == req.kwargs.page
        kstop == req.kwargs.stop_page
    IN  IF Truthy(kpage) THEN
            LET page == int(Val(kpage)) IN
            IF PageBelowFirst(page) THEN ExportRaise404
            ELSE
                LET offset == PageOffset(limit, page) IN
                IF Truthy(kstop) THEN
                    LET stop_page == int(Val(kstop)) IN
                    IF StopBelowPage(stop_page, page) THEN ExportRaise404
                    ELSE IF IsRange(stop_page, page) THEN
                        ExportWrite(req, Some(page), Some(offset),
                                    Some(RangeLimit(limit, page, stop_page)),
                                    RangeTag(page, stop_page))
                    ELSE
                        ExportWrite(req, Some(page), Some(offset), Some(limit),
                                    PageTag(page))
                ELSE
                    ExportWrite(req, Some(page), Some(offset), Some(limit),
                                PageTag(page))
        ELSE
            ExportWrite(req, kpage, None, UnpagedLimit(limit), AllTag)

\* ExporterResource.is_not_found
ExportIsNotFound(req) == req.export_type \notin EXPORT_TYPES

\* GET/POST on the exporter resource: dispatch, then _export.
ExporterGet(req) ==
    IF ExportIsNotFound(req) THEN ExportRaise404 ELSE Export(req)

(***************************************************************************)
(* The data store of the distribution resource.                            *)
(***************************************************************************)
MINIMUM_OBSERVATIONS == 500
MAXIMUM_OBSERVATIONS == 50000

\* Rows of the small stores, and lists of requested dimensions.
MaxRows == 2

\* SQL NULL in a column.  Column values proper are naturals, on which the
\* Decimal -> float step before clustering changes nothing.
NULL == -1

\* The DataField table: pk -> the column it stands for and its metadata.
DataFields ==
    << [column |-> "a", simple_type |-> "number", enumerable |-> FALSE,
        published |-> TRUE],
       [column |-> "b", simple_type |-> "string", enumerable |-> TRUE,
        published |-> TRUE],
       [column |-> "b", simple_type |-> "number", enumerable |-> TRUE,
        published |-> TRUE],
       [column |-> "a", simple_type |-> "string", enumerable |-> FALSE,
        published |-> FALSE] >>

\* Rows of the tree's root model, by their two queryable columns.
RowKinds ==
    { [a |-> 1, b |-> 2], [a |-> 2, b |-> 1], [a |-> NULL, b |-> 1] }

RECURSIVE SeqsUpTo(_, _)
SeqsUpTo(S, n) ==
    IF n = 0 THEN {<<>>}
    ELSE LET shorter == SeqsUpTo(S, n - 1)
         IN  shorter \cup {Append(q, x) : q \in shorter, x \in S}

\* A store: its rows are `head`, then `fill` more rows that have fresh and
\* distinct values in both columns, in value order.
Store(head, fill) == [head |-> head, fill |-> fill]
EmptyStore == Store(<<>>, 0)

\* The rows of a store, in storage (row id) order.
Rows(store) ==
    store.head \o [i \in 1..store.fill |-> [a |-> 10 + i, b |-> 10 + i]]

SmallStores == {Store(h, 0) : h \in SeqsUpTo(RowKinds, MaxRows)}

\* A store where value order and count order differ in both columns: the
\* smaller value has the smaller count.  In `a` the storage order is the
\* value order, in `b` it is the count order.
SkewedStores ==
    {Store(<<[a |-> 1, b |-> 2], [a |-> 2, b |-> 1], [a |-> 2, b |-> 2]>>, 0)}

\* Stores around the two thresholds: a context that drops one row brings
\* them to one group fewer.
BulkSizes == {MINIMUM_OBSERVATIONS, MAXIMUM_OBSERVATIONS + 1}
BulkStores == {Store(<<>>, n) : n \in BulkSizes}

IsBulk(store) == store.fill > 0

(***************************************************************************)
(* Distribution requests.                                                  *)
(***************************************************************************)
\* The pk in the URL and the entries of ?dimensions=: numerals of the four
\* fields, of a pk no field has, and the empty string.  The requester may
\* change fields (can_change) only in requests for the unpublished field.
UrlPks == {<<1>>, <<2>>, <<3>>, <<4>>, <<9>>}
DimensionLists ==
    { <<>>, << <<>> >>, << <<9>> >>, << <<2>>, <<1>> >>, << <<9>>, <<2>> >> }

\* The requester's stored context: it keeps the rows with id >= min_id.
Contexts == {[min_id |-> 1], [min_id |-> 2]}

DistParams ==
    [aware : BOOLEAN, cluster : BOOLEAN, n : {None, Some(2)},
     nulls : BOOLEAN, sort : {None, Some("count")}]

AllDistRequests ==
    [kind : {"dist"}, pk : UrlPks, can_change : BOOLEAN,
     dimensions : DimensionLists, params : DistParams, context : Contexts]

DistRequests == {r \in AllDistRequests : r.can_change => r.pk = <<4>>}

\* Large stores are probed by plain requests only: a published numeric or
\* string field, no dimension list, default n, sort and nulls.
PlainDistRequests ==
    {r \in DistRequests :
        /\ r.pk \in {<<1>>, <<2>>}
        /\ ~r.can_change
        /\ r.dimensions = <<>>
        /\ r.params.n = None /\ r.params.sort = None /\ ~r.params.nulls
        /\ r.context.min_id = 2 => r.params.aware}

(***************************************************************************)
(* FieldBase                                                               *)
(***************************************************************************)
\* FieldBase.get_queryset(request).get(pk=pk): the field, if the requester
\* may see it, else None (DoesNotExist).
QuerysetGet(req, pk) ==
    LET id == int(pk)
    IN  IF /\ id \in DOMAIN DataFields
           /\ DataFields[id].published \/ req.can_change
        THEN Some(id)
        ELSE None

\* FieldBase.get_object.  `cached` is request.instance: None while the
\* request has no such attribute, Some(instance) once it has been set.
GetObject(cached, req, pk) ==
    IF cached = None
    THEN [instance |-> QuerysetGet(req, pk),
          cached |-> Some(QuerysetGet(req, pk))]
    ELSE [instance |-> Val(cached), cached |-> cached]

\* FieldBase.is_not_found
FieldIsNotFound(cached, req) ==
    GetObject(cached, req, req.pk).instance = None

(***************************************************************************)
(* FieldDistribution.get: the grouped count                                *)
(***************************************************************************)
\* any(dimensions): some entry is a non-empty string.
AnyDimensions(dimensions) ==
    \E i \in DOMAIN dimensions : Len(dimensions[i]) > 0

\* The loop over the requested dimensions: the field objects that are kept.
RECURSIVE ResolveDimensions(_, _, _)
ResolveDimensions(cached, req, dimensions) ==
    IF dimensions = <<>> THEN <<>>
    ELSE LET got == GetObject(cached, req, Head(dimensions))
             rest == ResolveDimensions(got.cached, req, Tail(dimensions))
         IN  IF got.instance # None
             THEN <<Val(got.instance)>> \o rest
             ELSE rest

\* tree_field: the primary key of the tree's root model, the field that
\* is counted within each group.
TreeFieldColumn == "id"

GroupFieldsDefaultFirst(cached, req, instance) ==
    IF AnyDimensions(req.dimensions)
    THEN ResolveDimensions(cached, req, req.dimensions)
    ELSE <<1>>

\* `fields` after the if/else on any(dimensions).
GroupFields(cached, req, instance) ==
    IF AnyDimensions(req.dimensions)
    THEN ResolveDimensions(cached, req, req.dimensions)
    ELSE <<instance>>

\* tree.query_string_for_field(f.field, model=f.model) for each field.
GroupBy(fields) == [i \in DOMAIN fields |-> DataFields[fields[i]].column]

\* processor.get_queryset: the context's filter is applied in aware mode.
Queryset(req, rows) ==
    IF req.params.aware
    THEN SubSeq(rows, req.context.min_id, Len(rows))
    ELSE rows

\* stats.exclude(Q(f1=None) | Q(f2=None) | ...)
ExcludeNulls(rows, groupby) ==
    SelectSeq(rows, LAMBDA r : \A i \in DOMAIN groupby : r[groupby[i]] # NULL)

GroupKey(row, groupby) == [i \in DOMAIN groupby |-> row[groupby[i]]]

\* Distinct keys in order of first occurrence.
RECURSIVE DistinctKeys(_, _, _)
DistinctKeys(rows, groupby, seen) ==
    IF rows = <<>> THEN seen
    ELSE LET k == GroupKey(Head(rows), groupby)
         IN  DistinctKeys(Tail(rows), groupby,
                 IF \E i \in DOMAIN seen : seen[i] = k
                 THEN seen ELSE Append(seen, k))

\* tree_field.count(*groupby).apply(queryset): one point per distinct key,
\* counting the rows that have it.
GroupCount(rows, groupby) ==
    LET keyset == {GroupKey(rows[i], groupby) : i \in DOMAIN rows}
    IN  IF Cardinality(keyset) = Len(rows)
        THEN [i \in DOMAIN rows |->
                 [values |-> GroupKey(rows[i], groupby), count |-> 1]]
        ELSE LET keys == DistinctKeys(rows, groupby, <<>>)
             IN  [j \in DOMAIN keys |->
                    [values |-> keys[j],
                     count |-> Cardinality(
                         {i \in DOMAIN rows :
                             GroupKey(rows[i], groupby) = keys[j]})]]

\* `stats` when it is evaluated by len(stats).
Stats(req, rows, groupby) ==
    LET queryset == Queryset(req, rows)
    IN  GroupCount(IF req.params.nulls THEN queryset
                   ELSE ExcludeNulls(queryset, groupby), groupby)

(***************************************************************************)
(* FieldDistribution.get: ordering, clustering, outliers                   *)
(***************************************************************************)
\* NULL sorts first, then the values ascending, key by key.
RECURSIVE LexLess(_, _)
LexLess(u, v) ==
    IF u = <<>> \/ v = <<>> THEN FALSE
    ELSE \/ Head(u) < Head(v)
         \/ Head(u) = Head(v) /\ LexLess(Tail(u), Tail(v))

ByValues(p, q) == LexLess(p.values, q.values)
ByCountDesc(p, q) == p.count > q.count

OrderByGroupByWhateverSort(fields, sort) ==
    \E i \in DOMAIN fields : DataFields[fields[i]].enumerable

\* any([d.enumerable for d in fields]) and not params['sort'] == 'count'
OrderByGroupBy(fields, sort) ==
    /\ \E i \in DOMAIN fields : DataFields[fields[i]].enumerable
    /\ sort # Some("count")

AllNumericAssumed(fields) == TRUE

\* all([d.simple_type == 'number' for d in fields])
AllNumeric(fields) ==
    \A i \in DOMAIN fields : DataFields[fields[i]].simple_type = "number"

NothingToDoNever(length) == FALSE

\* if not length:
NothingToDo(length) == length = 0

TooLargeInclusive(length) == length >= MAXIMUM_OBSERVATIONS

\* length > MAXIMUM_OBSERVATIONS
TooLarge(length) == length > MAXIMUM_OBSERVATIONS

ShouldClusterAbove(cluster, length) ==
    cluster /\ length > MINIMUM_OBSERVATIONS

\* params['cluster'] and length >= MINIMUM_OBSERVATIONS
ShouldCluster(cluster, length) ==
    cluster /\ length >= MINIMUM_OBSERVATIONS

RECURSIVE MoveOutliersCopying(_, _, _)
MoveOutliersCopying(points, indexes, outliers) ==
    IF indexes = <<>> THEN [points |-> points, outliers |-> outliers]
    ELSE MoveOutliersCopying(points, Tail(indexes),
                             Append(outliers, points[Head(indexes) + 1]))

\* The loop over the indexes find_outliers returned: each one moves
\* points[idx] to outliers and leaves None in its place.
RECURSIVE MoveOutliers(_, _, _)
MoveOutliers(points, indexes, outliers) ==
    IF indexes = <<>> THEN [points |-> points, outliers |-> outliers]
    ELSE LET idx == Head(indexes) + 1
         IN  MoveOutliers([points EXCEPT ![idx] = None], Tail(indexes),
                          Append(outliers, points[idx]))

\* points = [p for p in points if p is not None], on the optional points.
DropNone(points) ==
    LET kept == SelectSeq(points, LAMBDA p : p # None)
    IN  [i \in DOMAIN kept |-> Val(kept[i])]

Unwrap(opts) == [i \in DOMAIN opts |-> IF opts[i] = None THEN None ELSE Val(opts[i])]

(***************************************************************************)
(* avocado.stats.kmeans, an external library: what it returns is chosen    *)
(* by `oracle` = [k, first, last]: the number of centroids it picks when   *)
(* n is not given, and whether it reports the first / the last             *)
(* observation as an outlier.                                              *)
(***************************************************************************)
Oracles == [k : {1, 2}, first : BOOLEAN, last : BOOLEAN]

\* The oracles that can make a difference to a request: none is consulted
\* unless every field is numeric, k only when clustering without n.
OraclesFor(req, fields, stats) ==
    IF \/ stats = <<>>
       \/ Len(stats) > MAXIMUM_OBSERVATIONS
       \/ \E i \in DOMAIN fields : DataFields[fields[i]].simple_type # "number"
    THEN {[k |-> 1, first |-> FALSE, last |-> FALSE]}
    ELSE {o \in Oracles :
            /\ o.k = 2 => req.params.n = None /\ req.params.cluster
            /\ o.last => Len(stats) > 1}

\* kmeans.find_outliers(obs, normalized=False): 0-based indexes into obs.
FindOutliers(obs, oracle) ==
    (IF oracle.first /\ Len(obs) > 0 THEN <<0>> ELSE <<>>)
    \o (IF oracle.last /\ Len(obs) > 1 THEN <<Len(obs) - 1>> ELSE <<>>)

\* kmeans.weighted_counts(obs, counts, n): centroids with their weighted
\* counts, and the observations left out as outliers.
WeightedCounts(obs, counts, n, oracle) ==
    LET k == IF n = None THEN oracle.k ELSE Val(n)
        m == IF k < Len(obs) THEN k ELSE Len(obs)
        out == FindOutliers(obs, oracle)
    IN  [points |-> [j \in 1..m |-> [values |-> obs[j], count |-> counts[j]]],
         outliers |-> [j \in DOMAIN out |->
                          [values |-> obs[out[j] + 1],
                           count |-> counts[out[j] + 1]]]]

(***************************************************************************)
(* FieldDistribution.get                                                   *)
(***************************************************************************)
DistLogCall(size, clustered, aware) ==
    [op |-> "usage.log", event |-> "dist",
     data |-> [size |-> size, clustered |-> clustered, aware |-> aware]]

OrderByCall(key) == [op |-> "order_by", key |-> key]
WeightedCountsCall(n) == [op |-> "kmeans.weighted_counts", n |-> n]
FindOutliersCall == [op |-> "kmeans.find_outliers"]

DistResponse(points, clustered, outliers, size) ==
    [status |-> 200, data |-> points, clustered |-> clustered,
     outliers |-> outliers, size |-> size]

Unprocessable == [status |-> 422, message |-> "Data too large"]

\* Up to `length = len(stats)`: the field objects, the group-by list and
\* the evaluated grouped count.
DistQuery(req, store) ==
    IF FieldIsNotFound(None, req)
    THEN [not_found |-> TRUE, fields |-> <<>>, stats |-> <<>>]
    ELSE LET cached == GetObject(None, req, req.pk).cached
             instance == Val(GetObject(cached, req, req.pk).instance)
             fields == GroupFields(cached, req, instance)
         IN  [not_found |-> FALSE,
              fields |-> fields,
              stats |-> Stats(req, Rows(store), GroupBy(fields))]

\* stats.order_by(...) and points = list(stats); nothing is ordered or
\* listed on the two early returns.
DistOrder(req, fields, stats) ==
    IF NothingToDo(Len(stats)) \/ TooLarge(Len(stats)) THEN <<>>
    ELSE IF OrderByGroupBy(fields, req.params.sort)
         THEN SortSeq(stats, ByValues)
         ELSE SortSeq(stats, ByCountDesc)

\* From `if not length:` to the end; `points` is list(stats) as ordered.
DistResult(req, fields, stats, points, oracle) ==
    LET length == Len(stats)
        aware == req.params.aware
    IN  IF NothingToDo(length) THEN
            [response |-> DistResponse(<<>>, FALSE, <<>>, 0),
             effects |-> <<DistLogCall(0, FALSE, aware)>>]
        ELSE IF TooLarge(length) THEN
            [response |-> Unprocessable, effects |-> <<>>]
        ELSE
            LET ordered == OrderByCall(
                    IF OrderByGroupBy(fields, req.params.sort)
                    THEN "groupby" ELSE "-count")
            IN  IF AllNumeric(fields) THEN
                    LET obs == [i \in DOMAIN points |-> points[i].values]
                    IN  IF ShouldCluster(req.params.cluster, length) THEN
                            LET counts == [i \in DOMAIN points |-> points[i].count]
                                km == WeightedCounts(obs, counts, req.params.n,
                                                     oracle)
                            IN  [response |->
                                    DistResponse(km.points, TRUE, km.outliers,
                                                 length),
                                 effects |->
                                    << ordered,
                                       WeightedCountsCall(req.params.n),
                                       DistLogCall(length, TRUE, aware) >>]
                        ELSE
                            LET moved == MoveOutliers(
                                    [i \in DOMAIN points |-> Some(points[i])],
                                    FindOutliers(obs, oracle), <<>>)
                            IN  [response |->
                                    DistResponse(DropNone(moved.points), FALSE,
                                                 Unwrap(moved.outliers), length),
                                 effects |->
                                    << ordered, FindOutliersCall,
                                       DistLogCall(length, FALSE, aware) >>]
                ELSE
                    [response |-> DistResponse(points, FALSE, <<>>, length),
                     effects |-> << ordered,
                                    DistLogCall(length, FALSE, aware) >>]

NotFound == [response |-> Http404, effects |-> <<>>]

\* GET on the distribution resource: is_not_found, then get.
FieldDistributionGet(req, store, oracle) ==
    LET q == DistQuery(req, store)
    IN  IF q.not_found THEN NotFound
        ELSE DistResult(req, q.fields, q.stats,
                        DistOrder(req, q.fields, q.stats), oracle)

(***************************************************************************)
(* Preview requests.                                                       *)
(***************************************************************************)
MaxFill == 7

\* Stores of 0..MaxFill rows for the preview, besides the small ones.
PreviewStores ==
    SmallStores \cup SkewedStores \cup {Store(<<>>, n) : n \in 0..MaxFill}

\* ?page= and ?limit= as the parametizer hands them over, and the
\* requester's stored context.
PreviewRequests ==
    [kind : {"preview"}, page : 0..MaxPage, limit : 0..MaxLimit,
     context : Contexts]

(***************************************************************************)
(* PaginatorResource (serrano/resources/pagination.py)                     *)
(***************************************************************************)
\* paginator.num_pages: one page when limit is 0, else ceil(count / limit).
NumPagesFloor(count, limit) ==
    IF limit = 0 THEN 1 ELSE count \div limit

NumPages(count, limit) ==
    IF limit = 0 THEN 1 ELSE (count + limit - 1) \div limit

\* paginator.page(number) does not raise: the number is within
\* 1..num_pages, or it is 1 and there are no pages.
ValidPage(number, count, limit) ==
    \/ number >= 1 /\ number <= NumPages(count, limit)
    \/ number = 1 /\ NumPages(count, limit) = 0

\* page.start_index(): the 1-based position of the page's first row.
StartIndex(number, limit) == limit * (number - 1) + 1

\* The outcome of paginator.page(number) on an invalid number.
PageOutOfRange == [error |-> "page out of range"]

PageCall(number, count, limit) ==
    [op |-> "paginator.page", number |-> number, count |-> count,
     num_pages |-> NumPages(count, limit),
     start_index |-> StartIndex(number, limit)]

(***************************************************************************)
(* PreviewResource.get                                                     *)
(***************************************************************************)
\* processor.get_queryset / get_iterable: the rows the context keeps, each
\* with its primary key, in row order.
PreviewRows(req, store) ==
    LET rows == Rows(store)
        all == [j \in DOMAIN rows |->
                   [pk |-> j, values |-> <<rows[j].a, rows[j].b>>]]
    IN  SubSeq(all, req.context.min_id, Len(all))

PreviewOffsetOneBased(start_index) == start_index

\* offset = max(0, page.start_index() - 1)
PreviewOffset(start_index) ==
    IF start_index - 1 > 0 THEN start_index - 1 ELSE 0

ReadLimitKept(limit) == Some(limit)

\* read_limit = limit or None
ReadLimit(limit) == IF limit # 0 THEN Some(limit) ELSE None

\* exporter.read(iterable, offset=offset, limit=read_limit): skips offset
\* rows and yields at most limit more, all the rest when limit is None.
ExporterRead(iterable, offset, limit) ==
    LET last == IF limit = None \/ offset + Val(limit) > Len(iterable)
                THEN Len(iterable)
                ELSE offset + Val(limit)
    IN  SubSeq(iterable, offset + 1, last)

ReadCall(offset, limit) ==
    [op |-> "exporter.read", offset |-> offset, limit |-> limit]

PreviewGet(req, store) ==
    LET iterable == PreviewRows(req, store)
        count == Len(iterable)
    IN  IF ~ValidPage(req.page, count, req.limit)
        THEN [response |-> PageOutOfRange, effects |-> <<>>]
        ELSE LET offset == PreviewOffset(StartIndex(req.page, req.limit))
                 read_limit == ReadLimit(req.limit)
             IN  [response |->
                     [status |-> 200,
                      objects |-> ExporterRead(iterable, offset, read_limit),
                      object_count |-> count],
                  effects |->
                     << PageCall(req.page, count, req.limit),
                        ReadCall(offset, read_limit) >>]

(***************************************************************************)
(* Stored contexts (avocado DataContext) and the requests on them.         *)
(* In the context specification `db` is [contexts, now, template]:         *)
(* contexts[pk] is the stored row or None once deleted, now is the clock   *)
(* datetime.now() reads, template is the json of the default template or   *)
(* None when there is none.                                                *)
(***************************************************************************)
MaxContexts == 2
MaxNow == 3

\* Filter conditions of a context: {} is "no conditions".
Jsons == {{}, {"c"}}

\* Who sends a request: the authenticated user or None, and the key of the
\* session or None (a cookieless agent).  The session "s1" is used both
\* logged in as ann and not logged in.
Requesters ==
    { [user |-> Some("ann"), session_key |-> Some("s1")],
      [user |-> Some("bob"), session_key |-> None],
      [user |-> None, session_key |-> Some("s1")],
      [user |-> None, session_key |-> None] }

\* request.data of POST and PUT; `valid` is whether the form validates it.
ContextData ==
    [json : Jsons, session : BOOLEAN, valid : {TRUE}]
        \cup {[json |-> {}, session |-> FALSE, valid |-> FALSE]}

\* The URL's keyword arguments: /<pk>/ or /session/.
ContextKwargs ==
    {[pk |-> Some(n), session |-> FALSE] : n \in 1..MaxContexts}
        \cup {[pk |-> None, session |-> TRUE]}

ContextRequests ==
    [kind : {"context"}, method : {"LIST"}, who : Requesters]
    \cup [kind : {"context"}, method : {"POST"}, who : Requesters,
          data : ContextData]
    \cup [kind : {"context"}, method : {"GET", "DELETE"}, who : Requesters,
          kwargs : ContextKwargs]
    \cup [kind : {"context"}, method : {"PUT"}, who : Requesters,
          kwargs : ContextKwargs, data : ContextData]

\* The rows of the root model, and those a context's conditions keep.
DatasetSize == 3
CountOf(json) == IF json = {} THEN DatasetSize ELSE 1

ContextStore(contexts, now, template) ==
    [contexts |-> contexts, now |-> now, template |-> template]

\* The pks of the contexts that are stored.
StoredPks(store) ==
    {pk \in DOMAIN store.contexts : store.contexts[pk] # None}

(***************************************************************************)
(* ContextBase                                                             *)
(***************************************************************************)
\* getattr(request, 'user', None) and request.user.is_authenticated()
IsAuthenticated(who) == who.user # None

ContextQuerysetAll(who, store) == StoredPks(store)

\* ContextBase.get_queryset: the pks of the requester's contexts.
ContextQueryset(who, store) ==
    IF IsAuthenticated(who)
    THEN {pk \in StoredPks(store) : Val(store.contexts[pk]).user = who.user}
    ELSE IF who.session_key # None
    THEN {pk \in StoredPks(store) :
             Val(store.contexts[pk]).session_key = who.session_key}
    ELSE {}

\* ContextBase.get_object: `found` is "one" with the pk of the instance,
\* "none" on DoesNotExist (instance = None), "many" when get(session=True)
\* matches several rows (MultipleObjectsReturned is not caught).
ContextGetObject(who, kwargs, store) ==
    LET queryset == ContextQueryset(who, store)
        matches == IF kwargs.pk # None
                   THEN {pk \in queryset : pk = Val(kwargs.pk)}
                   ELSE {pk \in queryset : Val(store.contexts[pk]).session}
    IN  IF matches = {} THEN [found |-> "none", pk |-> 0]
        ELSE IF Cardinality(matches) > 1 THEN [found |-> "many", pk |-> 0]
        ELSE [found |-> "one", pk |-> CHOOSE pk \in matches : TRUE]

(***************************************************************************)
(* ContextForm                                                             *)
(***************************************************************************)
\* ContextForm.clean_json: count_needs_update when force_count is not
\* given; `existing` and `count` are those of the instance before the save.
CountNeedsUpdate(existing, count, json) ==
    \/ existing # {}
    \/ json # {} /\ existing # json
    \/ json # {} /\ count = None

\* A new DataContext(): no owner, empty json, no count.
NewContext(now) ==
    [user |-> None, session_key |-> None, session |-> FALSE, json |-> {},
     count |-> None, accessed |-> now]

CountCall(json) == [op |-> "count", json |-> json]

\* ContextForm.save on a valid form: the instance as saved, and the count
\* query it ran, if any.
ContextFormSave(who, data, instance) ==
    LET needs == CountNeedsUpdate(instance.json, instance.count, data.json)
        owned == IF IsAuthenticated(who)
                 THEN [instance EXCEPT !.user = who.user]
                 ELSE [instance EXCEPT !.session_key = who.session_key]
        filled == [owned EXCEPT !.json = data.json, !.session = data.session]
    IN  [instance |->
            [filled EXCEPT !.count = IF needs THEN Some(CountOf(data.json))
                                     ELSE None],
         effects |-> IF needs THEN <<CountCall(data.json)>> ELSE <<>>,
         count_needs_update |-> IF needs THEN FALSE ELSE needs]

(***************************************************************************)
(* ContextsResource and ContextResource                                    *)
(***************************************************************************)
UsageLog(event, pk) == [op |-> "usage.log", event |-> event, pk |-> pk]
SessionModified == [op |-> "session.modified"]

\* serialize(instance): the row as the requester gets it.
Serialized(pk, instance) == [pk |-> pk, instance |-> instance]

\* instance.save() of a new instance: it gets the next pk.
Insert(store, instance) ==
    [store EXCEPT !.contexts = Append(@, Some(instance))]

ServerError == [status |-> 500]
BadRequest == [status |-> 400, message |-> "Cannot delete session context"]
FormErrors == [status |-> 422]

\* ContextBase.get_default: the saved default context, if a default
\* template exists.
GetDefault(who, store) ==
    IF store.template = None
    THEN [created |-> FALSE, store |-> store, effects |-> <<>>]
    ELSE LET saved == ContextFormSave(who,
                          [json |-> Val(store.template), session |-> TRUE,
                           valid |-> TRUE],
                          NewContext(store.now))
         IN  [created |-> TRUE,
              store |-> Insert(store, saved.instance),
              effects |-> saved.effects]

NeedsDefaultWhateverOwned(who, queryset) == who.session_key # None

\* if request.session.session_key: ... if not len(queryset):
NeedsDefault(who, queryset) == who.session_key # None /\ queryset = {}

\* ContextsResource.get
ContextsGet(req, store) ==
    LET queryset == ContextQueryset(req.who, store)
        listed == {Serialized(pk, Val(store.contexts[pk])) : pk \in queryset}
    IN  IF NeedsDefault(req.who, queryset)
        THEN LET default == GetDefault(req.who, store)
                 pk == Len(default.store.contexts)
             IN  [response |->
                     [status |-> 200,
                      contexts |->
                         IF default.created
                         THEN {Serialized(pk, Val(default.store.contexts[pk]))}
                         ELSE {}],
                  effects |-> default.effects,
                  store |-> default.store]
        ELSE [response |-> [status |-> 200, contexts |-> listed],
              effects |-> <<>>,
              store |-> store]

\* ContextsResource.post
ContextsPost(req, store) ==
    IF req.data.valid
    THEN LET saved == ContextFormSave(req.who, req.data, NewContext(store.now))
             after == Insert(store, saved.instance)
             pk == Len(after.contexts)
         IN  [response |->
                 [status |-> 201,
                  contexts |-> {Serialized(pk, saved.instance)}],
              effects |-> saved.effects
                            \o <<UsageLog("create", pk), SessionModified>>,
              store |-> after]
    ELSE [response |-> FormErrors, effects |-> <<>>, store |-> store]

AccessedKept(store, pk) == Val(store.contexts[pk]).accessed

\* accessed=datetime.now()
AccessedNow(store, pk) == store.now

\* ContextResource.get on the instance found
ContextGet(req, store, pk) ==
    [response |->
        [status |-> 200,
         contexts |-> {Serialized(pk, Val(store.contexts[pk]))}],
     effects |-> <<UsageLog("read", pk)>>,
     store |-> [store EXCEPT !.contexts[pk] =
                   Some([Val(@) EXCEPT !.accessed = AccessedNow(store, pk)])]]

\* ContextResource.put on the instance found
ContextPut(req, store, pk) ==
    IF req.data.valid
    THEN LET saved == ContextFormSave(req.who, req.data,
                                      Val(store.contexts[pk]))
         IN  [response |->
                 [status |-> 200,
                  contexts |-> {Serialized(pk, saved.instance)}],
              effects |-> saved.effects
                            \o <<UsageLog("update", pk), SessionModified>>,
              store |-> [store EXCEPT !.contexts[pk] = Some(saved.instance)]]
    ELSE [response |-> FormErrors, effects |-> <<>>, store |-> store]

\* instance.delete()
DeleteCall(pk) == [op |-> "instance.delete", pk |-> pk]

IsSessionContextNever(instance) == FALSE

\* if instance.session:
IsSessionContext(instance) == instance.session

\* ContextResource.delete on the instance found
ContextDelete(req, store, pk) ==
    IF IsSessionContext(Val(store.contexts[pk]))
    THEN [response |-> BadRequest, effects |-> <<>>, store |-> store]
    ELSE [response |-> [status |-> 204],
          effects |-> <<DeleteCall(pk), UsageLog("delete", pk),
                        SessionModified>>,
          store |-> [store EXCEPT !.contexts[pk] = None]]

\* A request on the contexts endpoints: is_not_found, then the method.
ContextDispatch(req, store) ==
    IF req.method = "LIST" THEN ContextsGet(req, store)
    ELSE IF req.method = "POST" THEN ContextsPost(req, store)
    ELSE LET got == ContextGetObject(req.who, req.kwargs, store)
         IN  IF got.found = "none"
             THEN [response |-> Http404, effects |-> <<>>, store |-> store]
             ELSE IF got.found = "many"
             THEN [response |-> ServerError, effects |-> <<>>,
                   store |-> store]
             ELSE IF req.method = "GET" THEN ContextGet(req, store, got.pk)
             ELSE IF req.method = "PUT" THEN ContextPut(req, store, got.pk)
             ELSE ContextDelete(req, store, got.pk)

(***************************************************************************)
(* QueryForm: saving a query and sharing it.                               *)
(* In the query specification `db` is [users, query, shared]: the User     *)
(* rows, the stored DataQuery row (None before its first committed save)   *)
(* and its shared_users.  Strings are sequences of characters.             *)
(***************************************************************************)
MaxLabels == 2

AnnEmail == <<"a", "@", "x">>
BobEmail == <<"b", "@", "x">>
NewEmail == <<"c", "@", "x">>

\* The User rows at the start.
DirectoryUsers ==
    { [username |-> <<"a", "n">>, email |-> AnnEmail],
      [username |-> <<"b">>, email |-> BobEmail] }

\* Pieces of usernames_or_emails between two commas: addresses, with and
\* without whitespace, usernames, a name nobody has, blanks.
Labels ==
    { <<>>, <<" ">>, AnnEmail, <<" ", "b", " ", "@", "x">>, NewEmail,
      <<"a", "n">>, <<"z">> }

\* The submitted form data; the form's other fields do not matter here.
QueryData ==
    [usernames_or_emails : SeqsUpTo(Labels, MaxLabels),
     context_json : Jsons, view_json : {{}}]

QueryRequests ==
    [kind : {"query"}, who : {r \in Requesters : r.session_key # None},
     data : QueryData, commit : BOOLEAN]

\* "".join(label.split())
StripWhitespace(label) == SelectSeq(label, LAMBDA c : c # " ")

\* validate_email(label) does not raise: something before and after an '@'.
IsEmail(label) ==
    \E i \in DOMAIN label : label[i] = "@" /\ i > 1 /\ i < Len(label)

\* What one label adds to `emails`.
LabelEmails(label, users) ==
    LET stripped == StripWhitespace(label)
    IN  IF stripped = <<>> THEN {}
        ELSE IF IsEmail(stripped) THEN {stripped}
        ELSE {u.email : u \in {v \in users : v.username = stripped}}

\* QueryForm.clean_usernames_or_emails
CleanUsernamesOrEmails(labels, users) ==
    UNION {LabelEmails(labels[i], users) : i \in DOMAIN labels}

\* clean_context_json / clean_view_json.  The third disjunct of the source,
\* `json and self.instance.count is None`, is only reached when it cannot
\* matter (json non-empty, existing empty and equal to json).
QueryCountNeedsUpdate(existing, json) ==
    \/ existing # {}
    \/ json # {} /\ existing # json

\* A new DataQuery().
NewQuery ==
    [user |-> None, session_key |-> None, context_json |-> {},
     view_json |-> {}, distinct_count |-> None, record_count |-> None]

\* instance.share_with_user(email) (avocado): the user with that address,
\* created if there is none, joins shared_users.
UserFor(email, users) ==
    IF \E u \in users : u.email = email
    THEN CHOOSE u \in users : u.email = email
    ELSE [username |-> email, email |-> email]

SendMailCall(emails) == [op |-> "send_mail", to |-> emails]
QueryCountCall(which) == [op |-> "count", which |-> which]
SaveCall == [op |-> "instance.save"]

NewEmailsAll(all_emails, existing_emails) == all_emails

\* new_emails = all_emails - existing_emails
NewEmails(all_emails, existing_emails) == all_emails \ existing_emails

\* removed_emails = existing_emails - all_emails
RemovedEmails(all_emails, existing_emails) == existing_emails \ all_emails

\* QueryForm.save on a valid form.
QueryFormSave(req, store) ==
    LET base == IF store.query = None THEN NewQuery ELSE Val(store.query)
        needs_context ==
            QueryCountNeedsUpdate(base.context_json, req.data.context_json)
        needs_view ==
            QueryCountNeedsUpdate(base.view_json, req.data.view_json)
        owned == IF IsAuthenticated(req.who)
                 THEN [base EXCEPT !.user = req.who.user]
                 ELSE [base EXCEPT !.session_key = req.who.session_key]
        instance ==
            [owned EXCEPT
                !.context_json = req.data.context_json,
                !.view_json = req.data.view_json,
                !.distinct_count =
                    IF needs_context THEN Some(CountOf(req.data.context_json))
                    ELSE None,
                !.record_count =
                    IF needs_view THEN Some(CountOf(req.data.context_json))
                    ELSE None]
        counted ==
            (IF needs_context THEN <<QueryCountCall("distinct")>> ELSE <<>>)
            \o (IF needs_view THEN <<QueryCountCall("record")>> ELSE <<>>)
        all_emails ==
            CleanUsernamesOrEmails(req.data.usernames_or_emails, store.users)
        existing_emails == {u.email : u \in store.shared}
        new_emails == NewEmails(all_emails, existing_emails)
        removed_emails == RemovedEmails(all_emails, existing_emails)
        added == {UserFor(e, store.users) : e \in new_emails}
    IN  IF req.commit
        THEN [response |-> [status |-> 200, instance |-> instance],
              effects |-> counted \o <<SaveCall, SendMailCall(new_emails)>>,
              store |->
                 [users |-> store.users \cup added,
                  query |-> Some(instance),
                  shared |->
                     (store.shared \cup added)
                        \ {u \in store.users : u.email \in removed_emails}]]
        ELSE [response |-> [status |-> 200, instance |-> instance],
              effects |-> counted,
              store |-> store]

(***************************************************************************)
(* Actions                                                                 *)
(***************************************************************************)
\* A request for the exporter resource arrives.
ReceiveExport ==
    /\ pc = "idle"
    /\ \E req \in ExportRequests : request' = req
    /\ pc' = "received"
    /\ UNCHANGED <<response, effects, db>>

HandleExport ==
    /\ pc = "received"
    /\ request.kind = "export"
    /\ pc' = "responded"
    /\ response' = ExporterGet(request).response
    /\ effects' = ExporterGet(request).effects
    /\ UNCHANGED <<request, db>>

\* The response has gone out; everything scoped to the request is discarded.
Finish ==
    /\ pc = "responded"
    /\ pc' = "idle"
    /\ request' = NoRequest
    /\ response' = NoResponse
    /\ effects' = <<>>
    /\ UNCHANGED db

InitExport ==
    /\ pc = "idle"
    /\ request = NoRequest
    /\ response = NoResponse
    /\ effects = <<>>
    /\ db = EmptyStore

NextExport ==
    \/ ReceiveExport
    \/ HandleExport
    \/ Finish

SpecExport == InitExport /\ [][NextExport]_vars

\* A request for the distribution resource arrives.
ReceiveDist ==
    /\ pc = "idle"
    /\ \E req \in (IF IsBulk(db) THEN PlainDistRequests ELSE DistRequests) :
          request' = req
    /\ pc' = "received"
    /\ UNCHANGED <<response, effects, db>>

\* FieldDistribution.get on the request in flight.  The grouped count and
\* its ordering are evaluated once and shared by the kmeans outcomes.
HandleDist ==
    /\ pc = "received"
    /\ request.kind = "dist"
    /\ \E q \in {DistQuery(request, db)} :
       \E points \in {DistOrder(request, q.fields, q.stats)} :
       \E oracle \in OraclesFor(request, q.fields, q.stats) :
       \E r \in {IF q.not_found THEN NotFound
                 ELSE DistResult(request, q.fields, q.stats, points, oracle)} :
          /\ response' = r.response
          /\ effects' = r.effects
    /\ pc' = "responded"
    /\ UNCHANGED <<request, db>>

InitDist ==
    /\ pc = "idle"
    /\ request = NoRequest
    /\ response = NoResponse
    /\ effects = <<>>
    /\ db \in SmallStores \cup SkewedStores \cup BulkStores

NextDist ==
    \/ ReceiveDist
    \/ HandleDist
    \/ Finish

SpecDist == InitDist /\ [][NextDist]_vars

\* A request for the preview resource arrives.
ReceivePreview ==
    /\ pc = "idle"
    /\ \E req \in PreviewRequests : request' = req
    /\ pc' = "received"
    /\ UNCHANGED <<response, effects, db>>

HandlePreview ==
    /\ pc = "received"
    /\ request.kind = "preview"
    /\ \E r \in {PreviewGet(request, db)} :
          /\ response' = r.response
          /\ effects' = r.effects
    /\ pc' = "responded"
    /\ UNCHANGED <<request, db>>

InitPreview ==
    /\ pc = "idle"
    /\ request = NoRequest
    /\ response = NoResponse
    /\ effects = <<>>
    /\ db \in PreviewStores

NextPreview ==
    \/ ReceivePreview
    \/ HandlePreview
    \/ Finish

SpecPreview == InitPreview /\ [][NextPreview]_vars

\* A request for one of the contexts endpoints arrives; time has passed
\* since the previous one.
ReceiveContext ==
    /\ pc = "idle"
    /\ db.now < MaxNow
    /\ \E req \in ContextRequests :
          /\ req.method \in {"LIST", "POST"} =>
                Len(db.contexts) < MaxContexts
          /\ request' = req
    /\ pc' = "received"
    /\ db' = [db EXCEPT !.now = @ + 1]
    /\ UNCHANGED <<response, effects>>

HandleContext ==
    /\ pc = "received"
    /\ request.kind = "context"
    /\ \E r \in {ContextDispatch(request, db)} :
          /\ response' = r.response
          /\ effects' = r.effects
          /\ db' = r.store
    /\ pc' = "responded"
    /\ UNCHANGED request

InitContext ==
    /\ pc = "idle"
    /\ request = NoRequest
    /\ response = NoResponse
    /\ effects = <<>>
    /\ db \in {ContextStore(<<>>, 0, t) : t \in {None, Some({}), Some({"c"})}}

NextContext ==
    \/ ReceiveContext
    \/ HandleContext
    \/ Finish

SpecContext == InitContext /\ [][NextContext]_vars

\* A query form is submitted.
ReceiveQuery ==
    /\ pc = "idle"
    /\ \E req \in QueryRequests : request' = req
    /\ pc' = "received"
    /\ UNCHANGED <<response, effects, db>>

\* form.save(commit) on the submitted form.
HandleQuery ==
    /\ pc = "received"
    /\ request.kind = "query"
    /\ \E r \in {QueryFormSave(request, db)} :
          /\ response' = r.response
          /\ effects' = r.effects
          /\ db' = r.store
    /\ pc' = "responded"
    /\ UNCHANGED request

InitQuery ==
    /\ pc = "idle"
    /\ request = NoRequest
    /\ response = NoResponse
    /\ effects = <<>>
    /\ db = [users |-> DirectoryUsers, query |-> None, shared |-> {}]

NextQuery ==
    \/ ReceiveQuery
    \/ HandleQuery
    \/ Finish

SpecQuery == InitQuery /\ [][NextQuery]_vars

Init == InitDist

Next ==
    \/ ReceiveExport
    \/ HandleExport
    \/ ReceiveDist
    \/ HandleDist
    \/ ReceivePreview
    \/ HandlePreview
    \/ ReceiveContext
    \/ HandleContext
    \/ ReceiveQuery
    \/ HandleQuery
    \/ Finish

Spec == Init /\ [][Next]_vars

(***************************************************************************)
(* Properties of the file export.                                          *)
(***************************************************************************)
ExportDone == pc = "responded" /\ request.kind = "export"

\* The export request reached _export (its type is registered).
ExportDispatched == ExportDone /\ request.export_type \in EXPORT_TYPES

HasPage == request.kwargs.page # None
HasStop == request.kwargs.stop_page # None
ReqPage == int(Val(request.kwargs.page))
ReqStop == int(Val(request.kwargs.stop_page))
ReqLimit == IF request.limit = None THEN DEFAULT_LIMIT ELSE Val(request.limit)

WriteCalls == {i \in DOMAIN effects : effects[i].op = "exporter.write"}
ExportLogCalls ==
    {i \in DOMAIN effects :
        effects[i].op = "usage.log" /\ effects[i].event = "export"}

\* A valid page or page range was requested.
ValidPaged ==
    /\ ExportDispatched
    /\ HasPage
    /\ ReqPage >= 1
    /\ HasStop => ReqStop >= ReqPage

\* C1: an inclusive range page...stop_page with stop_page > page and per-page
\* limit L hands the exporter the limit L * (stop_page - page + 1).
C1_RangeLimitIsPagesSpanned ==
    (ValidPaged /\ HasStop /\ ReqStop > ReqPage) =>
        /\ WriteCalls = {1}
        /\ effects[1].limit = Some(ReqLimit * (ReqStop - ReqPage + 1))

\* C2: an export naming page p >= 1 with per-page limit L hands the exporter
\* the offset L * (p - 1); a single page hands it the limit L unchanged.
C2_PageOffset ==
    ValidPaged =>
        /\ WriteCalls = {1}
        /\ effects[1].offset = Some(ReqLimit * (ReqPage - 1))
        /\ ~HasStop => effects[1].limit = Some(ReqLimit)

C2_Witness ==
    /\ ValidPaged
    /\ ~HasStop
    /\ ReqPage = 3
    /\ request.limit = Some(2)
    /\ effects[1].offset = Some(4)
    /\ effects[1].limit = Some(2)

\* C3: page < 1, or stop_page < page, is answered "not found": nothing is
\* written, no 'export' event is logged, nothing is clamped into range.
C3_InvalidPagesRejected ==
    (/\ ExportDone
     /\ HasPage
     /\ \/ ReqPage < 1
        \/ HasStop /\ ReqStop < ReqPage) =>
        /\ response = Http404
        /\ effects = <<>>

C3_Witness ==
    /\ ExportDispatched
    /\ HasPage /\ HasStop
    /\ ReqPage = 3 /\ ReqStop = 2
    /\ response = Http404
    /\ effects = <<>>

\* C4: page...page is the single-page export of that page: same offset, same
\* limit, same file tag 'p<page>'.
C4_DegenerateRange ==
    (ValidPaged /\ HasStop /\ ReqStop = ReqPage) =>
        LET single == ExporterGet([request EXCEPT !.kwargs.stop_page = None])
        IN  /\ response = single.response
            /\ effects = single.effects
            /\ response.file_tag = <<"p">> \o format(ReqPage)
            /\ effects[1].offset = Some(ReqLimit * (ReqPage - 1))
            /\ effects[1].limit = Some(ReqLimit)

C4_Witness ==
    /\ ValidPaged /\ HasStop
    /\ ReqPage = 10 /\ ReqStop = 10
    /\ request.kwargs.page # request.kwargs.stop_page
    /\ response.file_tag = <<"p", 1, 0>>

\* C5: with no page and no range the limit parameter (default 50) does not
\* apply: the exporter gets offset None and limit None, the file tag is 'all'.
C5_UnpagedIsUnlimited ==
    (ExportDispatched /\ ~HasPage) =>
        /\ WriteCalls = {1}
        /\ effects[1].offset = None
        /\ effects[1].limit = None
        /\ response.file_tag = <<"all">>

C5_Witness ==
    /\ ExportDispatched /\ ~HasPage
    /\ request.limit = Some(2)
    /\ effects[1].limit = None
    /\ response.status = 200

\* C6: an export that writes output logs exactly one 'export' event, after
\* the write, with the requested type and partial = (a page was requested).
C6_OneExportEvent ==
    (ExportDone /\ WriteCalls # {}) =>
        /\ Cardinality(ExportLogCalls) = 1
        /\ \A w \in WriteCalls : \A l \in ExportLogCalls :
              /\ w < l
              /\ effects[l].data.type = request.export_type
              /\ effects[l].data.partial = HasPage

C6_Witness ==
    /\ ExportDone
    /\ WriteCalls = {1}
    /\ ExportLogCalls = {2}
    /\ HasPage /\ ReqPage = 1
    /\ effects[2].data = [type |-> "json", partial |-> TRUE]

(***************************************************************************)
(* Properties of the distribution.                                         *)
(***************************************************************************)
\* FieldDistribution.get ran on the request (the field in the URL exists).
DistInvoked ==
    pc = "responded" /\ request.kind = "dist" /\ response.status # 404

\* The fields grouped by, and the number of groups of the grouped count.
GroupedFields == DistQuery(request, db).fields
NumGroups == Len(DistQuery(request, db).stats)

DistLogCalls ==
    {i \in DOMAIN effects :
        effects[i].op = "usage.log" /\ effects[i].event = "dist"}
KmeansCalls ==
    {i \in DOMAIN effects : effects[i].op = "kmeans.weighted_counts"}
OutlierCalls ==
    {i \in DOMAIN effects : effects[i].op = "kmeans.find_outliers"}
OrderCalls == {i \in DOMAIN effects : effects[i].op = "order_by"}

\* C7: every invocation of the distribution logs one 'dist' event with the
\* group size, whether clustering occurred and the aware flag, on the empty,
\* the oversized and the normal outcome alike.
C7_EveryInvocationLogsDist ==
    DistInvoked =>
        /\ Cardinality(DistLogCalls) = 1
        /\ \A l \in DistLogCalls :
              /\ effects[l].data.size = NumGroups
              /\ effects[l].data.clustered = (KmeansCalls # {})
              /\ effects[l].data.aware = request.params.aware

\* C8: the answer is 'Data too large' (unprocessable) exactly when there are
\* more than 50000 groups; then nothing is ordered, clustered or searched for
\* outliers; exactly 50000 groups are processed normally.
C8_CapacityGuard ==
    DistInvoked =>
        \A groups \in {NumGroups} :
            /\ (response = Unprocessable) = (groups > 50000)
            /\ response = Unprocessable =>
                  KmeansCalls = {} /\ OutlierCalls = {} /\ OrderCalls = {}
            /\ groups = 50000 =>
                  /\ response.status = 200
                  /\ response.size = 50000
                  /\ OrderCalls # {}

C8_Witness ==
    /\ DistInvoked
    /\ NumGroups = 50001
    /\ request.params.cluster
    /\ response.status = 422
    /\ response.message = "Data too large"

\* C9: with zero groups the answer is exactly {data: [], outliers: [],
\* clustered: false, size: 0} whatever cluster, n, sort, nulls and aware are,
\* and neither clustering nor outlier detection runs.
C9_EmptyDistribution ==
    (DistInvoked /\ NumGroups = 0) =>
        /\ response = [status |-> 200, data |-> <<>>, outliers |-> <<>>,
                       clustered |-> FALSE, size |-> 0]
        /\ KmeansCalls = {} /\ OutlierCalls = {}

C9_Witness ==
    /\ DistInvoked
    /\ NumGroups = 0
    /\ db # EmptyStore
    /\ request.params.cluster /\ request.params.n = Some(2)
    /\ request.params.sort = Some("count") /\ request.params.aware
    /\ \A i \in DOMAIN GroupedFields :
          DataFields[GroupedFields[i]].simple_type = "number"
    /\ response.size = 0 /\ response.data = <<>>

\* C10: for a non-empty, non-oversized distribution k-means runs, and the
\* result says clustered, exactly when every grouped field is numeric,
\* cluster is true and there are at least 500 groups; with numeric fields
\* and fewer groups or cluster = false only outlier detection runs.
C10_ClusteringTrigger ==
    DistInvoked =>
        \A q \in {DistQuery(request, db)} :
            (Len(q.stats) > 0 /\ Len(q.stats) <= 50000) =>
            LET numeric == \A i \in DOMAIN q.fields :
                              DataFields[q.fields[i]].simple_type = "number"
                trigger == /\ numeric
                           /\ request.params.cluster
                           /\ Len(q.stats) >= 500
            IN  /\ (KmeansCalls # {}) = trigger
                /\ response.clustered = trigger
                /\ (numeric /\ ~trigger) =>
                      OutlierCalls # {} /\ KmeansCalls = {}
                /\ trigger => OutlierCalls = {}

C10_Witness ==
    /\ DistInvoked
    /\ NumGroups = 500
    /\ request.params.cluster
    /\ response.status = 200
    /\ response.clustered
    /\ KmeansCalls # {}

\* The 499 side of the trigger: outlier detection only.
C10_WitnessBelow ==
    /\ DistInvoked
    /\ NumGroups = 499
    /\ request.params.cluster
    /\ ~response.clustered
    /\ OutlierCalls # {}

(***************************************************************************)
(* Properties of the group-by list.                                        *)
(***************************************************************************)
\* A dimension list was given and FieldDistribution.get ran on it.
DimensionsListed == DistInvoked /\ AnyDimensions(request.dimensions)

\* The field each listed dimension identifies for the requester, looked up
\* on its own; the dimensions that identify one, in request order.
Identified(pk) == IF pk = <<>> THEN None ELSE QuerysetGet(request, pk)
Resolving == SelectSeq(request.dimensions, LAMBDA pk : Identified(pk) # None)
IdentifiedFields == [i \in DOMAIN Resolving |-> Val(Identified(Resolving[i]))]

\* C11: with dimensions d1..dk listed, the fields grouped by are the fields
\* d1..dk identify (those that resolve, in request order), also when they
\* differ from the field named in the URL.
C11_DimensionsResolveToTheirFields ==
    DimensionsListed => GroupedFields = IdentifiedFields

\* The request was refused: an error status, no distribution in the answer.
DistRejected == response.status >= 400

\* C12: a listed dimension that does not resolve to a visible field is
\* dropped and the remaining ones are grouped by; when none of the listed
\* dimensions resolves the request is rejected instead of being computed
\* over an empty group-by list.
C12_UnresolvedDimensionsDropped ==
    DimensionsListed =>
        IF IdentifiedFields = <<>>
        THEN DistRejected
        ELSE Len(GroupedFields) = Len(IdentifiedFields)

\* No dimension was given (none listed, or only empty strings).
NoDimensions == DistInvoked /\ ~AnyDimensions(request.dimensions)

DistAnswered == DistInvoked /\ response.status = 200 /\ response.size > 0

SortedByValues(points) ==
    \A i \in 1..(Len(points) - 1) :
        ~LexLess(points[i + 1].values, points[i].values)

SortedByCountDesc(points) ==
    \A i \in 1..(Len(points) - 1) : points[i].count >= points[i + 1].count

\* At least one grouped field is enumerable and sort is not 'count'.
ValueOrderRequested ==
    /\ \E i \in DOMAIN GroupedFields : DataFields[GroupedFields[i]].enumerable
    /\ request.params.sort # Some("count")

\* C14: the groups are ordered by the group-by values, key by key in
\* dimension order, exactly when some grouped field is enumerable and sort
\* is not 'count'; in every other case by descending count.
C14_Ordering ==
    DistAnswered =>
        \A byvalues \in {ValueOrderRequested} :
            /\ Cardinality(OrderCalls) = 1
            /\ \A o \in OrderCalls :
                  effects[o].key = IF byvalues THEN "groupby" ELSE "-count"
            /\ ~response.clustered =>
                  IF byvalues THEN SortedByValues(response.data)
                  ELSE SortedByCountDesc(response.data)

\* The enumerable number field with the default sort on the skewed store:
\* the groups come in value order, the smaller count first.
C14_Witness ==
    /\ DistAnswered
    /\ db \in SkewedStores
    /\ request.pk = <<3>> /\ request.dimensions = <<>>
    /\ request.params.sort = None
    /\ response.data = << [values |-> <<1>>, count |-> 1],
                          [values |-> <<2>>, count |-> 2] >>

\* The same request with sort = 'count': descending count instead.
C14_WitnessCount ==
    /\ DistAnswered
    /\ db \in SkewedStores
    /\ request.pk = <<3>> /\ request.dimensions = <<>>
    /\ request.params.sort = Some("count")
    /\ response.data = << [values |-> <<2>>, count |-> 2],
                          [values |-> <<1>>, count |-> 1] >>

(***************************************************************************)
(* Properties of the null exclusion.                                       *)
(***************************************************************************)
\* The columns of the dimensions the request asks to group by: those of the
\* listed dimensions, or of the URL's field when none is listed.
RequestedColumns ==
    IF AnyDimensions(request.dimensions)
    THEN GroupBy(IdentifiedFields)
    ELSE GroupBy(<<int(request.pk)>>)

HasNull(row, columns) == \E i \in DOMAIN columns : row[columns[i]] = NULL

RECURSIVE SumCounts(_)
SumCounts(points) ==
    IF points = <<>> THEN 0 ELSE Head(points).count + SumCounts(Tail(points))

\* The rows the answer accounts for, in data and outliers together.
RowsCounted == SumCounts(response.data) + SumCounts(response.outliers)

\* C15: with nulls = false a row is left out of the distribution when any
\* one of the dimensions grouped by is null in it, and with nulls = true no
\* row is left out; so a row with a null in either of two dimensions is
\* absent when nulls = false and present when nulls = true.
C15_NullExclusion ==
    (/\ DistInvoked /\ response.status = 200
     /\ ~IsBulk(db)
     /\ RequestedColumns # <<>>) =>
        \A rows \in {Queryset(request, Rows(db))} :
            RowsCounted =
                Cardinality({j \in DOMAIN rows :
                    request.params.nulls
                        \/ ~HasNull(rows[j], RequestedColumns)})

(***************************************************************************)
(* Properties of the outlier pass and of the clustering stage.             *)
(***************************************************************************)
\* Outlier detection ran, k-means did not.
OutlierPassOnly == DistAnswered /\ OutlierCalls # {} /\ KmeansCalls = {}

\* `seq` without the elements that occur in `out`, in the order of seq.
Without(seq, out) ==
    SelectSeq(seq, LAMBDA p : \A j \in DOMAIN out : out[j] # p)

\* C16: in the outlier-detection-only pass the groups are only partitioned:
\* each group, with its count, is in exactly one of data and outliers,
\* len(data) + len(outliers) is the reported size, and the kept points are
\* in the order the groups were in.
C16_OutlierPassPartitions ==
    OutlierPassOnly =>
        \A q \in {DistQuery(request, db)} :
        \A groups \in {DistOrder(request, q.fields, q.stats)} :
        \A answered \in {response.data \o response.outliers} :
            /\ Len(response.data) + Len(response.outliers) = response.size
            /\ response.size = Len(q.stats)
            /\ {answered[j] : j \in DOMAIN answered} =
                  {q.stats[i] : i \in DOMAIN q.stats}
            /\ Cardinality({answered[j] : j \in DOMAIN answered}) =
                  Len(answered)
            /\ response.data = Without(groups, response.outliers)

\* On the skewed store the group listed first (the larger count) is found
\* to be an outlier; the other one is kept.
C16_Witness ==
    /\ OutlierPassOnly
    /\ db \in SkewedStores
    /\ request.pk = <<1>> /\ request.dimensions = <<>>
    /\ response.size = 2
    /\ response.outliers = << [values |-> <<2>>, count |-> 2] >>
    /\ response.data = << [values |-> <<1>>, count |-> 1] >>

\* 499 groups, the first and the last of them outliers.
C16_WitnessBulk ==
    /\ OutlierPassOnly
    /\ response.size = 499
    /\ Len(response.outliers) = 2
    /\ Len(response.data) = 497

\* Some grouped field is not numeric.
NonNumericGrouped ==
    \E i \in DOMAIN GroupedFields :
        DataFields[GroupedFields[i]].simple_type # "number"

\* C17: when some grouped field is not numeric the clustering stage leaves
\* the result alone: data is the full ordered list of groups, outliers is
\* empty, clustered is false and size is the number of groups, whatever
\* cluster and n are; neither k-means nor outlier detection is called.
C17_NonNumericUntouched ==
    (DistAnswered /\ NonNumericGrouped) =>
        \A q \in {DistQuery(request, db)} :
            /\ response.data = DistOrder(request, q.fields, q.stats)
            /\ Len(response.data) = Len(q.stats)
            /\ response.outliers = <<>>
            /\ ~response.clustered
            /\ response.size = Len(q.stats)
            /\ KmeansCalls = {} /\ OutlierCalls = {}

\* 500 groups of the string field with cluster = true: nothing is clustered.
C17_Witness ==
    /\ DistAnswered
    /\ request.pk = <<2>>
    /\ request.params.cluster
    /\ response.size = 500
    /\ Len(response.data) = 500
    /\ response.outliers = <<>>
    /\ ~response.clustered

\* The string field on the skewed store, with cluster = true and n = 2.
C17_WitnessSmall ==
    /\ DistAnswered
    /\ db \in SkewedStores
    /\ request.pk = <<2>> /\ request.dimensions = <<>>
    /\ request.params.cluster /\ request.params.n = Some(2)
    /\ request.params.sort = Some("count")
    /\ response.data = << [values |-> <<2>>, count |-> 2],
                          [values |-> <<1>>, count |-> 1] >>
    /\ response.outliers = <<>>

(***************************************************************************)
(* Properties of the preview.                                              *)
(***************************************************************************)
PreviewDone == pc = "responded" /\ request.kind = "preview"

\* The requested page exists: the preview was read and answered.
PreviewAnswered == PreviewDone /\ response # PageOutOfRange

\* The call of paginator.page and the call of exporter.read.
ThePage == effects[1]
TheRead == effects[2]

\* The result stream the exporter reads from.
ResultStream == PreviewRows(request, db)

Min(a, b) == IF a < b THEN a ELSE b

\* C18: the offset handed to exporter.read is page.start_index() - 1
\* floored at 0, never negative, also for an empty result set; the read
\* limit is the page size when limit > 0 and None when limit = 0; so page n
\* with limit L > 0 returns at most L objects, the rows at zero-based
\* positions L*(n-1) .. L*n - 1 of the result stream.
C18_PreviewWindow ==
    PreviewAnswered =>
        /\ Len(effects) = 2
        /\ ThePage.op = "paginator.page" /\ TheRead.op = "exporter.read"
        /\ TheRead.offset >= 0
        /\ TheRead.offset = IF ThePage.start_index >= 1
                            THEN ThePage.start_index - 1 ELSE 0
        /\ request.limit = 0 => TheRead.limit = None
        /\ request.limit > 0 =>
              \A L \in {request.limit} : \A n \in {request.page} :
                 /\ TheRead.limit = Some(L)
                 /\ Len(response.objects) <= L
                 /\ Len(response.objects) =
                       Min(L, Len(ResultStream) - L * (n - 1))
                 /\ \A i \in DOMAIN response.objects :
                       response.objects[i] = ResultStream[L * (n - 1) + i]

\* Page 3 with limit 2 of seven rows: the rows at positions 4 and 5.
C18_Witness ==
    /\ PreviewAnswered
    /\ request.page = 3 /\ request.limit = 2
    /\ Len(ResultStream) = 7
    /\ TheRead = ReadCall(4, Some(2))
    /\ Len(response.objects) = 2
    /\ response.objects[1] = ResultStream[5]
    /\ response.objects[2] = ResultStream[6]

\* Page 1 of an empty result set: offset 0, nothing returned.
C18_WitnessEmpty ==
    /\ PreviewAnswered
    /\ request.page = 1 /\ request.limit = 2
    /\ ResultStream = <<>>
    /\ TheRead.offset = 0
    /\ response.objects = <<>>

\* ceil(count / limit): the least number of pages of `limit` rows that hold
\* `count` rows.
Ceiling(count, limit) ==
    CHOOSE k \in 0..count :
        /\ k * limit >= count
        /\ \A j \in 0..(k - 1) : j * limit < count

\* C19: for every limit > 0 and every count >= 0 the paginator's number of
\* pages is ceil(count / limit), and page 1 exists and starts at index 1.
C19_PageCount ==
    (PreviewDone /\ request.limit > 0) =>
        /\ request.page = 1 => PreviewAnswered
        /\ PreviewAnswered =>
              /\ ThePage.count = Len(ResultStream)
              /\ ThePage.num_pages = Ceiling(Len(ResultStream), request.limit)
              /\ request.page = 1 => ThePage.start_index = 1

\* Seven rows in pages of three: three pages, the first starts at 1.
C19_Witness ==
    /\ PreviewAnswered
    /\ request.limit = 3 /\ request.page = 1
    /\ Len(ResultStream) = 7
    /\ ThePage.num_pages = 3
    /\ ThePage.start_index = 1

\* No rows: no pages, page 1 is answered and starts at 1.
C19_WitnessEmpty ==
    /\ PreviewAnswered
    /\ request.limit = 3 /\ request.page = 1
    /\ ResultStream = <<>>
    /\ ThePage.num_pages = 0
    /\ ThePage.start_index = 1

\* C20: with limit = 0 there is exactly one page whatever the count is;
\* it starts at index 1 and holds the entire result set.
C20_UnlimitedSinglePage ==
    (PreviewDone /\ request.limit = 0) =>
        /\ PreviewAnswered = (request.page = 1)
        /\ PreviewAnswered =>
              /\ ThePage.num_pages = 1
              /\ ThePage.start_index = 1
              /\ TheRead = ReadCall(0, None)
              /\ response.objects = ResultStream
              /\ response.object_count = Len(response.objects)

\* Seven rows, limit 0: all seven on page 1.
C20_Witness ==
    /\ PreviewAnswered
    /\ request.limit = 0 /\ request.page = 1
    /\ Len(ResultStream) = 7
    /\ Len(response.objects) = 7
    /\ ThePage.num_pages = 1

\* No rows, limit 0: still one page, empty.
C20_WitnessEmpty ==
    /\ PreviewAnswered
    /\ request.limit = 0 /\ request.page = 1
    /\ ResultStream = <<>>
    /\ response.objects = <<>>
    /\ ThePage.num_pages = 1

(***************************************************************************)
(* Properties of the stored contexts.                                      *)
(***************************************************************************)
ContextDone == pc = "responded" /\ request.kind = "context"

\* The handler step of a request on the contexts endpoints.
ContextStep ==
    pc = "received" /\ pc' = "responded" /\ request.kind = "context"

\* The stored row with this pk, None when there is none (any more).
Stored(store, pk) ==
    IF pk \in DOMAIN store.contexts THEN store.contexts[pk] ELSE None

\* The requester owns the row.
OwnedBy(who, instance) ==
    IF who.user # None THEN instance.user = who.user
    ELSE who.session_key # None /\ instance.session_key = who.session_key

\* The step is a GET of one stored context that is answered with it.
GetServed ==
    ContextStep /\ request.method = "GET" /\ response'.status = 200

\* C21: a successful GET of a stored context owned by the requester
\* advances its 'accessed' timestamp: the stored value after the GET is
\* strictly later than the one before, and nothing else of the object (or
\* of any other object) is changed.
C21_GetAdvancesAccessed ==
    [][GetServed =>
          \A served \in response'.contexts :
             LET before == Val(db.contexts[served.pk])
                 after == Val(db'.contexts[served.pk])
             IN  /\ OwnedBy(request.who, before)
                 /\ after.accessed > before.accessed
                 /\ after = [before EXCEPT !.accessed = after.accessed]
                 /\ \A pk \in DOMAIN db.contexts :
                       pk # served.pk => db'.contexts[pk] = db.contexts[pk]
                 /\ DOMAIN db'.contexts = DOMAIN db.contexts]_vars

\* A context created at time 1 was read at time 2.
C21_Witness ==
    /\ ContextDone
    /\ request.method = "GET"
    /\ response.status = 200
    /\ \E served \in response.contexts :
          /\ served.instance.accessed = 1
          /\ Val(db.contexts[served.pk]).accessed = 2
          /\ Val(db.contexts[served.pk]).json =  served.instance.json

\* The rows a lookup request (anything but POST) is answered with.
LookedUp ==
    IF request.method # "POST" /\ response'.status = 200
    THEN response'.contexts ELSE {}

\* C22: context lookups are isolated per owner.  Whatever was requested
\* before, a request is only answered with rows of its own requester (by
\* user when authenticated, else by session key, none at all without a
\* session key), and it only updates or deletes rows its requester owned;
\* a row it creates is not attributed to anyone else.
C22_OwnerIsolation ==
    [][ContextStep =>
          /\ \A served \in LookedUp :
                /\ OwnedBy(request.who, served.instance)
                /\ Stored(db, served.pk) # None =>
                      OwnedBy(request.who, Val(db.contexts[served.pk]))
          /\ \A pk \in DOMAIN db.contexts :
                db'.contexts[pk] # db.contexts[pk] =>
                   /\ db.contexts[pk] # None
                   /\ OwnedBy(request.who, Val(db.contexts[pk]))
          /\ \A pk \in DOMAIN db'.contexts \ DOMAIN db.contexts :
                LET created == Val(db'.contexts[pk])
                IN  /\ created.user = request.who.user
                    /\ request.who.user = None =>
                          created.session_key = request.who.session_key]_vars

\* bob asks for a row of ann's by its pk: it is stored, and not found.
C22_Witness ==
    /\ ContextDone
    /\ request.method \in {"GET", "PUT", "DELETE"}
    /\ request.who.user = Some("bob")
    /\ request.kwargs.pk = Some(1)
    /\ Stored(db, 1) # None
    /\ Val(db.contexts[1]).user = Some("ann")
    /\ response = Http404
    /\ effects = <<>>

\* The same session, not logged in, does not get ann's session context.
C22_WitnessSession ==
    /\ ContextDone
    /\ request.method = "GET"
    /\ request.who = [user |-> None, session_key |-> Some("s1")]
    /\ request.kwargs.session
    /\ Stored(db, 1) # None
    /\ Val(db.contexts[1]).user = Some("ann")
    /\ Val(db.contexts[1]).session
    /\ response = Http404

\* The handler step of a DELETE.
DeleteStep == ContextStep /\ request.method = "DELETE"

\* The requester's rows the DELETE addresses: the one with the URL's pk, or
\* the ones marked as session context for /session/.
Addressed ==
    {pk \in DOMAIN db.contexts :
        /\ db.contexts[pk] # None
        /\ OwnedBy(request.who, Val(db.contexts[pk]))
        /\ IF request.kwargs.session THEN Val(db.contexts[pk]).session
           ELSE request.kwargs.pk = Some(pk)}

C23_WitnessDeleted ==
    /\ ContextDone
    /\ request.method = "DELETE"
    /\ response.status = 204
    /\ request.kwargs.pk = Some(1)
    /\ db.contexts[1] = None
    /\ effects[2] = UsageLog("delete", 1)

\* The handler step of a list request, and the rows a step creates.
ListStep == ContextStep /\ request.method = "LIST"
Created == DOMAIN db'.contexts \ DOMAIN db.contexts

\* The stored rows the requester owns.
OwnedRows(who, store) ==
    {pk \in StoredPks(store) : OwnedBy(who, Val(store.contexts[pk]))}

\* C24: a list request creates a default context only when it has a session
\* key and its requester owns no context; the default is owned by the
\* requester, so the next list request of the same requester finds it and
\* creates none.  A list request without a session key creates nothing.
C24_DefaultCreatedOnce ==
    [][ListStep =>
          /\ \A pk \in DOMAIN db.contexts :
                db'.contexts[pk] = db.contexts[pk]
          /\ Created # {} =>
                /\ request.who.session_key # None
                /\ OwnedRows(request.who, db) = {}
                /\ Cardinality(Created) = 1
                /\ OwnedRows(request.who, db') = Created
                /\ \A pk \in Created :
                      /\ Val(db'.contexts[pk]).session
                      /\ Some(Val(db'.contexts[pk]).json) = db.template
                      /\ response'.contexts =
                            {Serialized(pk, Val(db'.contexts[pk]))}
          /\ OwnedRows(request.who, db) # {} =>
                /\ Created = {}
                /\ {c.pk : c \in response'.contexts} =
                      OwnedRows(request.who, db)
          /\ request.who.session_key = None => Created = {}]_vars

\* The first list request of the session "s1", not logged in, got the
\* default context that was created for it.
C24_Witness ==
    /\ ContextDone
    /\ request.method = "LIST"
    /\ request.who = [user |-> None, session_key |-> Some("s1")]
    /\ db.now = 1
    /\ Len(db.contexts) = 1
    /\ Val(db.contexts[1]).session
    /\ Val(db.contexts[1]).session_key = Some("s1")
    /\ response.contexts = {Serialized(1, Val(db.contexts[1]))}

\* The second list request of ann finds the context of the first.
C24_WitnessSecond ==
    /\ ContextDone
    /\ request.method = "LIST"
    /\ request.who.user = Some("ann")
    /\ db.now = 2
    /\ Len(db.contexts) = 1
    /\ db.template # None
    /\ Val(db.contexts[1]).accessed = 1
    /\ Val(db.contexts[1]).session
    /\ response.contexts = {Serialized(1, Val(db.contexts[1]))}

\* A valid form was saved by POST or PUT; the count queries it ran.
FormSaved ==
    /\ ContextDone
    /\ request.method \in {"POST", "PUT"}
    /\ response.status \in {200, 201}
CountCalls == {i \in DOMAIN effects : effects[i].op = "count"}

\* C25: without force_count the form recomputes and stores the count only
\* if the json being saved has conditions; when the submitted json is empty
\* the stored count is None and the whole dataset is not counted, whatever
\* the json stored before was.
C25_CountOnlyWithConditions ==
    FormSaved =>
        \A saved \in response.contexts :
            /\ saved.instance.json = request.data.json
            /\ Stored(db, saved.pk) = Some(saved.instance)
            /\ (CountCalls # {}) = (request.data.json # {})
            /\ request.data.json # {} =>
                  saved.instance.count = Some(CountOf(request.data.json))
            /\ request.data.json = {} =>
                  /\ saved.instance.count = None
                  /\ \A i \in CountCalls : effects[i].json # {}

(***************************************************************************)
(* Properties of query sharing.                                            *)
(***************************************************************************)
QueryDone == pc = "responded" /\ request.kind = "query"

\* The step that runs form.save on the submitted query form.
QueryStep == pc = "received" /\ pc' = "responded" /\ request.kind = "query"

\* The addresses of the users a query is shared with.
SharedEmails(store) == {u.email : u \in store.shared}

\* The addresses send_mail was called with, over a list of calls.
Mailed(calls) ==
    UNION {calls[i].to : i \in {j \in DOMAIN calls : calls[j].op = "send_mail"}}

\* The cleaned usernames_or_emails of the request in flight.
Cleaned == CleanUsernamesOrEmails(request.data.usernames_or_emails, db.users)

\* C26: on a committed save a share notification goes to an address if and
\* only if it is in the save's cleaned usernames_or_emails and the query was
\* not shared with it just before; afterwards the shared users' addresses
\* are exactly the submitted set.  A save with commit=False mails nobody
\* and changes no sharing.
C26_ShareNotifications ==
    [][QueryStep =>
          \A cleaned \in {Cleaned} :
             IF request.commit
             THEN /\ Mailed(effects') = cleaned \ SharedEmails(db)
                  /\ SharedEmails(db') = cleaned
                  /\ db'.query # None
             ELSE /\ Mailed(effects') = {}
                  /\ \A i \in DOMAIN effects' : effects'[i].op # "send_mail"
                  /\ db' = db]_vars

\* The same two names saved again: the query stays shared with both
\* addresses and nobody is mailed.
C26_Witness ==
    /\ QueryDone
    /\ request.commit
    /\ request.data.usernames_or_emails = << <<"a", "n">>, NewEmail >>
    /\ SharedEmails(db) = {AnnEmail, NewEmail}
    /\ \E i \in DOMAIN effects : effects[i] = SendMailCall({})

\* One address is new to the query, the other one is revoked.
C26_WitnessChange ==
    /\ QueryDone
    /\ request.commit
    /\ SharedEmails(db) = {AnnEmail, BobEmail}
    /\ \E i \in DOMAIN effects : effects[i] = SendMailCall({BobEmail})
    /\ Cardinality(db.users) = 3

\* commit=False on a shared query.
C26_WitnessUncommitted ==
    /\ QueryDone
    /\ ~request.commit
    /\ db.shared # {}
    /\ Cleaned # {}
    /\ Cleaned # SharedEmails(db)
    /\ Mailed(effects) = {}

====
